---- MODULE Spec2Model ----
(***************************************************************************)
(* Rank-based election simulation of Script/utils.py:                      *)
(* select_data, current_results, bottom_party_name, top_party_votes_share, *)
(* redistribute_bottom_points and simulateRankBasedElection.                *)
(*                                                                         *)
(* Numbers.  The program computes in float64.  Every quantity is kept here *)
(* as a fixed-point integer in units of 1/Scale, so a vote count v is      *)
(* v * Scale and a share of p percent (p / 100 in the program) is p.  The  *)
(* input values are chosen so that the program's float arithmetic is exact *)
(* on them.  The float NaN that pandas produces for a missing value is the *)
(* value NaN below; fadd and flt are float addition and float "<".         *)
(***************************************************************************)
EXTENDS Integers, Sequences, FiniteSets, TLC

\* ---------------------------------------------------------------- bounds
\* Party labels that may occur as best_party or next_best_party.
PartyOrder == <<"A", "B", "C">>

Party == {PartyOrder[i] : i \in 1..Len(PartyOrder)}

\* Raw vote figures a party may carry in the best-party source; 0 is what
\* '..' is replaced by.
VoteValues == {0, 20, 30, 50}

\* Redistribution percentages stated in the next-best-party source.
ShareValues == {50, 100}

\* Largest number of (best_party, next_best_party) pairs with a stated
\* percentage in the next-best-party source.
MaxRows == 3

\* ------------------------------------------------------ program constants
Scale == 100

Threshold == 50

NoPreference == {"inget parti", "vet ej/uppgift saknas"}

NaN == -1

\* ---------------------------------------------------------- float helpers
fadd(a, b) == IF a = NaN \/ b = NaN THEN NaN ELSE a + b

fmul(a, b) == IF a = NaN \/ b = NaN THEN NaN ELSE (a * b) \div Scale

flt(a, b) == a # NaN /\ b # NaN /\ a < b

feq(a, b) == a # NaN /\ b # NaN /\ a = b

RECURSIVE SetSum(_)
SetSum(S) ==
    IF S = {} THEN 0
    ELSE LET x == CHOOSE y \in S : TRUE IN x[2] + SetSum(S \ {x})

SetMax(S) == CHOOSE x \in S : \A y \in S : y <= x

\* ------------------------------------------------------------- the table
Destination == Party \cup NoPreference

Parties(d) == {r[1] : r \in DOMAIN d}

RowsOf(d, p) == {r \in DOMAIN d : r[1] = p}

\* pd.merge(df_bp, df_nbp).replace('..', 0)...assign(...): one row per pair
\* of the next-best-party source whose best_party has a vote figure.  df_nbp
\* holds the stated percentages and dots the pairs whose entry is '..'.
select_data(df_bp, df_nbp, dots) ==
    [r \in {q \in DOMAIN df_nbp \cup dots : q[1] \in DOMAIN df_bp} |->
        [redistribution_share |->
             IF r \in dots THEN 0 ELSE (df_nbp[r] * Scale) \div 100,
         current_votes        |-> df_bp[r[1]] * Scale,
         initial_votes        |-> df_bp[r[1]] * Scale,
         redistributed_votes  |-> 0]]

\* DataFrame.groupby(...).max(): NaN is skipped, an all-NaN group gives NaN.
GroupMax(S) == IF S \subseteq {NaN} THEN NaN ELSE SetMax(S \ {NaN})

\* DataFrame.groupby(...).aggregate('mean') of the values of a group, given
\* as pairs <<row, value>>: NaN is skipped, an all-NaN group gives NaN.
GroupMean(S) ==
    LET ok == {x \in S : x[2] # NaN}
    IN IF ok = {} THEN NaN ELSE SetSum(ok) \div Cardinality(ok)

\* DataFrame.sort_values('current_votes', ascending=False): the frames the
\* sort can return for the set S of rows.  The default sort is not stable,
\* so rows with equal keys can come out in any order; NaN goes last.
Before(a, b) == b = NaN \/ (a # NaN /\ a >= b)

RECURSIVE sort_values(_)
sort_values(S) ==
    IF S = {} THEN {<<>>}
    ELSE UNION {{<<x>> \o t : t \in sort_values(S \ {x})} :
                  x \in {y \in S : \A z \in S :
                             Before(y.current_votes, z.current_votes)}}

\* groupby('best_party').max(): one row per party.
Standings(d) ==
    {[best_party          |-> p,
      current_votes       |-> GroupMax({d[r].current_votes : r \in RowsOf(d, p)}),
      redistributed_votes |-> GroupMax({d[r].redistributed_votes : r \in RowsOf(d, p)})] :
        p \in Parties(d)}

\* The possible results of current_results(data).
current_results(d) == sort_values(Standings(d))

\* bottom_party_name ranking the parties with votes by current_votes +
\* redistributed_votes.
BottomPartyByTotal(d) ==
    {x.best_party :
        x \in {y \in Standings(d) :
                 /\ y.current_votes # 0
                 /\ \A z \in Standings(d) :
                       z.current_votes # 0 =>
                          Before(fadd(z.current_votes, z.redistributed_votes),
                                 fadd(y.current_votes, y.redistributed_votes))}}

\* The possible results of bottom_party_name(data); empty when iloc[-1]
\* raises IndexError.
bottom_party_name(d) ==
    {LET live == SelectSeq(s, LAMBDA x : x.current_votes # 0)
     IN live[Len(live)].best_party :
        s \in {t \in current_results(d) :
                  \E i \in 1..Len(t) : t[i].current_votes # 0}}

\* assign(current_votes = current_votes + redistributed_votes) on the rows
\* of a frame.
Totalled(S) ==
    {[x EXCEPT !.current_votes = fadd(x.current_votes, x.redistributed_votes)] :
        x \in S}

\* top_party_votes_share without its second sort: the total of the party
\* ranked first by current_votes.
TopShareOfFirstRanked(d) ==
    {fadd(s[1].current_votes, s[1].redistributed_votes) :
        s \in {u \in current_results(d) : Len(u) > 0}}

\* top_party_votes_share giving an undefined share, instead of raising, on
\* a frame without rows.
TopShareOfEmptyAsNaN(d) ==
    IF Parties(d) = {} THEN {NaN}
    ELSE {t[1].current_votes : t \in sort_values(Totalled(Standings(d)))}

\* The possible results of top_party_votes_share(data); empty when iloc[0]
\* raises IndexError.  The second sort sees the rows of current_results in
\* some order, which does not change the frames it can return.
TopShareOutcomes(d) ==
    {t[1].current_votes :
        t \in {u \in sort_values(Totalled(Standings(d))) : Len(u) > 0}}

\* redistribute_bottom_points without the reset of the bottom party's
\* current_votes.
RedistributeWithoutReset(d, b) ==
    [r \in DOMAIN d |->
        LET points_to_redistribute ==
                IF <<b, r[1]>> \in DOMAIN d
                THEN fmul(d[<<b, r[1]>>].initial_votes,
                          d[<<b, r[1]>>].redistribution_share)
                ELSE NaN
        IN [d[r] EXCEPT
              !.redistributed_votes = fadd(@, points_to_redistribute)]]

\* redistribute_bottom_points rebuilding current_votes of the other parties
\* from initial_votes.
RedistributeRevivingOthers(d, b) ==
    [r \in DOMAIN d |->
        LET points_to_redistribute ==
                IF <<b, r[1]>> \in DOMAIN d
                THEN fmul(d[<<b, r[1]>>].initial_votes,
                          d[<<b, r[1]>>].redistribution_share)
                ELSE NaN
        IN [d[r] EXCEPT
              !.redistributed_votes = fadd(@, points_to_redistribute),
              !.current_votes = IF r[1] = b THEN 0 ELSE d[r].initial_votes]]

\* redistribute_bottom_points crediting the bottom party itself with what
\* its rows hand to parties outside the table.
RedistributeKeepingDropped(d, b) ==
    [r \in DOMAIN d |->
        LET points_to_redistribute ==
                IF <<b, r[1]>> \in DOMAIN d
                THEN fmul(d[<<b, r[1]>>].initial_votes,
                          d[<<b, r[1]>>].redistribution_share)
                ELSE NaN
            outside ==
                IF r[1] = b
                THEN SetSum({<<q, fmul(d[q].initial_votes, d[q].redistribution_share)>> :
                               q \in {x \in RowsOf(d, b) : x[2] \notin Parties(d)}})
                ELSE 0
        IN [d[r] EXCEPT
              !.redistributed_votes = fadd(fadd(@, points_to_redistribute), outside),
              !.current_votes = IF r[1] = b THEN 0 ELSE @]]

\* redistribute_bottom_points handing on the bottom party's current_votes +
\* redistributed_votes instead of its initial_votes.
RedistributeFromTotal(d, b) ==
    [r \in DOMAIN d |->
        LET points_to_redistribute ==
                IF <<b, r[1]>> \in DOMAIN d
                THEN fmul(fadd(d[<<b, r[1]>>].current_votes,
                               d[<<b, r[1]>>].redistributed_votes),
                          d[<<b, r[1]>>].redistribution_share)
                ELSE NaN
        IN [d[r] EXCEPT
              !.redistributed_votes = fadd(@, points_to_redistribute),
              !.current_votes = IF r[1] = b THEN 0 ELSE @]]

\* redistribute_bottom_points with the merge keyed on the pair of parties:
\* a row (d, b) alone receives the points of the row (b, d).
RedistributeByPair(d, b) ==
    [r \in DOMAIN d |->
        LET points_to_redistribute ==
                IF r[2] = b /\ <<b, r[1]>> \in DOMAIN d
                THEN fmul(d[<<b, r[1]>>].initial_votes,
                          d[<<b, r[1]>>].redistribution_share)
                ELSE NaN
        IN [d[r] EXCEPT
              !.redistributed_votes = fadd(@, points_to_redistribute),
              !.current_votes = IF r[1] = b THEN 0 ELSE @]]

\* redistribute_bottom_points adding the points to the live current_votes of
\* the receiving rows as well.
RedistributeIntoCurrent(d, b) ==
    [r \in DOMAIN d |->
        LET points_to_redistribute ==
                IF <<b, r[1]>> \in DOMAIN d
                THEN fmul(d[<<b, r[1]>>].initial_votes,
                          d[<<b, r[1]>>].redistribution_share)
                ELSE NaN
        IN [d[r] EXCEPT
              !.redistributed_votes = fadd(@, points_to_redistribute),
              !.current_votes = IF r[1] = b THEN 0
                                ELSE IF points_to_redistribute = NaN THEN @
                                ELSE @ + points_to_redistribute]]

\* redistribute_bottom_points resetting every party whose current_votes
\* equals the bottom party's.
RedistributeResettingTies(d, b) ==
    [r \in DOMAIN d |->
        LET points_to_redistribute ==
                IF <<b, r[1]>> \in DOMAIN d
                THEN fmul(d[<<b, r[1]>>].initial_votes,
                          d[<<b, r[1]>>].redistribution_share)
                ELSE NaN
        IN [d[r] EXCEPT
              !.redistributed_votes = fadd(@, points_to_redistribute),
              !.current_votes =
                  IF \E q \in RowsOf(d, b) : d[q].current_votes = d[r].current_votes
                  THEN 0 ELSE @]]

\* redistribute_bottom_points(data) when bottom_party_name(data) returned b.
redistribute_bottom_points(d, b) ==
    [r \in DOMAIN d |->
        LET points_to_redistribute ==
                IF <<b, r[1]>> \in DOMAIN d
                THEN fmul(d[<<b, r[1]>>].initial_votes,
                          d[<<b, r[1]>>].redistribution_share)
                ELSE NaN
        IN [d[r] EXCEPT
              !.redistributed_votes = fadd(@, points_to_redistribute),
              !.current_votes = IF r[1] = b THEN 0 ELSE @]]

\* The diehard_votes frame: one entry per party that has a row without a
\* next-best preference.
DiehardVotes(d) ==
    [p \in {r[1] : r \in {q \in DOMAIN d : q[2] \in NoPreference}} |->
        SetSum({<<r, fmul(d[r].initial_votes, d[r].redistribution_share)>> :
                    r \in {q \in RowsOf(d, p) : q[2] \in NoPreference}})]

\* The frame simulateRankBasedElection returns.
FinalTally(d, dh) ==
    [p \in Parties(d) |->
        LET cv  == GroupMean({<<r, d[r].current_votes>> : r \in RowsOf(d, p)})
            rv  == GroupMean({<<r, d[r].redistributed_votes>> : r \in RowsOf(d, p)})
            iv  == GroupMean({<<r, d[r].initial_votes>> : r \in RowsOf(d, p)})
            dv  == IF p \in DOMAIN dh THEN dh[p] ELSE NaN
            cv2 == IF cv = 0 THEN dv ELSE cv
        IN [current_votes       |-> fadd(cv2, rv),
            redistributed_votes |-> rv,
            initial_votes       |-> iv,
            diehard_votes       |-> dv]]

\* ------------------------------------------------------------- the state
VARIABLES data, diehard_votes, loop_count, pc, exc, notice, calls, tally

vars == <<data, diehard_votes, loop_count, pc, exc, notice, calls, tally>>

\* The first n party labels.
FirstParties(n) == {PartyOrder[i] : i \in 1..n}

\* The best-party sources over the first n parties.  The figures are
\* percentages, so they add up to at most 100.  Party labels are
\* interchangeable (no operation looks at a label, and ties between parties
\* are resolved in every possible way), so the sources are enumerated up to
\* renaming: in order of non-increasing votes.
BestPartySources(n) ==
    {f \in [FirstParties(n) -> VoteValues] :
        /\ SetSum({<<p, f[p]>> : p \in DOMAIN f}) <= 100
        /\ \A i, j \in 1..n : i < j => f[PartyOrder[i]] >= f[PartyOrder[j]]}

\* The stated percentages of a next-best-party source for the first n
\* parties: at most MaxRows pairs, the shares of one party adding up to at
\* most 100.
NextBestPartySources(n) ==
    UNION {{f \in [R -> ShareValues] :
               \A p \in FirstParties(n) :
                  SetSum({<<r, f[r]>> : r \in {q \in R : q[1] = p}}) <= 100} :
             R \in {Q \in SUBSET (FirstParties(n) \X Destination) :
                       Cardinality(Q) <= MaxRows}}

\* The pairs entered as '..' in the source: none, or every pair of parties
\* of the table without a stated percentage.
DotSets(n, df_nbp) ==
    {{}} \cup {(FirstParties(n) \X FirstParties(n)) \ DOMAIN df_nbp}

\* The state at the head of the loop of simulateRankBasedElection, for every
\* table select_data can build from a best-party source and a
\* next-best-party source in which every party has a row.
Init ==
    /\ \E n \in 0..Len(PartyOrder) :
         \E df_nbp \in NextBestPartySources(n) :
            \E dots \in DotSets(n, df_nbp) :
               /\ FirstParties(n) = {r[1] : r \in DOMAIN df_nbp \cup dots}
               /\ \E df_bp \in BestPartySources(n) :
                     data = select_data(df_bp, df_nbp, dots)
    /\ diehard_votes = DiehardVotes(data)
    /\ loop_count = 1
    /\ pc = "loop"
    /\ exc = "none"
    /\ notice = <<>>
    /\ calls = 0
    /\ tally = <<>>

\* The while condition without its bound on loop_count.
LoopGuardUnbounded(d, top, n) == flt(top, Threshold * Scale)

\* The while condition with "<=" for the vote share.
LoopGuardAtMost(d, top, n) ==
    /\ (flt(top, Threshold * Scale) \/ feq(top, Threshold * Scale))
    /\ n < Cardinality(Parties(d))

\* The while condition stopping one round early.
LoopGuardShort(d, top, n) ==
    /\ flt(top, Threshold * Scale)
    /\ n + 1 < Cardinality(Parties(d))

\* The while condition with "<=" for loop_count.
LoopGuardInclusive(d, top, n) ==
    /\ flt(top, Threshold * Scale)
    /\ n <= Cardinality(Parties(d))

\* The while condition of simulateRankBasedElection when
\* top_party_votes_share(data) has returned top and loop_count is n.
LoopGuard(d, top, n) ==
    /\ flt(top, Threshold * Scale)
    /\ n < Cardinality(Parties(d))

\* The while condition raises: top_party_votes_share indexes an empty frame.
GuardRaises ==
    /\ pc = "loop"
    /\ TopShareOutcomes(data) = {}
    /\ pc' = "error"
    /\ exc' = "IndexError: top_party_votes_share"
    /\ UNCHANGED <<data, diehard_votes, loop_count, notice, calls, tally>>

\* One pass of the loop body.
Round ==
    /\ pc = "loop"
    /\ \E top \in TopShareOutcomes(data) : LoopGuard(data, top, loop_count)
    /\ \E b \in bottom_party_name(data) :
          /\ data' = redistribute_bottom_points(data, b)
          /\ notice' = Append(notice, b)
    /\ calls' = calls + 1
    /\ loop_count' = loop_count + 1
    /\ UNCHANGED <<diehard_votes, pc, exc, tally>>

\* The loop body raises: bottom_party_name finds no party with votes.
RoundRaises ==
    /\ pc = "loop"
    /\ \E top \in TopShareOutcomes(data) : LoopGuard(data, top, loop_count)
    /\ bottom_party_name(data) = {}
    /\ calls' = calls + 1
    /\ pc' = "error"
    /\ exc' = "IndexError: bottom_party_name"
    /\ UNCHANGED <<data, diehard_votes, loop_count, notice, tally>>

\* The loop exits and the final tally is assembled.
Finalize ==
    /\ pc = "loop"
    /\ \E top \in TopShareOutcomes(data) : ~LoopGuard(data, top, loop_count)
    /\ tally' = FinalTally(data, diehard_votes)
    /\ pc' = "done"
    /\ UNCHANGED <<data, diehard_votes, loop_count, exc, notice, calls>>

Next == GuardRaises \/ Round \/ RoundRaises \/ Finalize

Spec == Init /\ [][Next]_vars

\* ------------------------------------------------------ derived quantities
\* Float sum of the second components of the pairs of S.
RECURSIVE FSum(_)
FSum(S) ==
    IF S = {} THEN 0
    ELSE LET x == CHOOSE y \in S : TRUE IN fadd(x[2], FSum(S \ {x}))

\* A party's row; its vote columns are the same on all of its rows.
RowOf(d, p) == d[CHOOSE r \in RowsOf(d, p) : TRUE]

CurrentVotes(d, p) == RowOf(d, p).current_votes

RedistributedVotes(d, p) == RowOf(d, p).redistributed_votes

InitialVotes(d, p) == RowOf(d, p).initial_votes

PartyTotal(d, p) == fadd(CurrentVotes(d, p), RedistributedVotes(d, p))

\* Sum over all distinct parties of current_votes + redistributed_votes.
TableTotal(d) == FSum({<<p, PartyTotal(d, p)>> : p \in Parties(d)})

\* The largest defined current_votes + redistributed_votes, NaN if none is.
MaxTotal(d) == GroupMax({PartyTotal(d, p) : p \in Parties(d)})

LiveParties(d) == {p \in Parties(d) : CurrentVotes(d, p) # 0}

\* What the eliminated party b hands to the parties of the table.
Handed(d, b) ==
    FSum({<<r, fmul(d[r].initial_votes, d[r].redistribution_share)>> :
             r \in {q \in RowsOf(d, b) : q[2] \in Parties(d)}})

\* A step that is a completed redistribute_bottom_points call.
RoundStep == calls' = calls + 1 /\ pc' = "loop"

Eliminated == notice'[Len(notice')]

\* ------------------------------------------------------------------ C1
\* C1 as stated: one round leaves the sum over all parties of
\* current_votes + redistributed_votes unchanged, unless the eliminated
\* party has a row whose next_best_party is no best_party of the table.
C1_ConservationAsStated ==
    [][RoundStep =>
          \/ \E r \in RowsOf(data, Eliminated) : r[2] \notin Parties(data)
          \/ feq(TableTotal(data'), TableTotal(data))]_vars

\* C1 amended: a round eliminating b turns the total undefined (NaN) when
\* some party of the table has no row from b, and otherwise changes a
\* defined total by exactly what b hands to the parties of the table minus
\* b's initial votes; so the total is conserved exactly when b has a row
\* for every party of the table and those shares sum to 1.
C1_RoundTotal ==
    [][RoundStep =>
          LET b == Eliminated
              complete == \A p \in Parties(data) : <<b, p>> \in DOMAIN data
          IN /\ ~complete => TableTotal(data') = NaN
             /\ (complete /\ TableTotal(data) # NaN) =>
                    /\ TableTotal(data') # NaN
                    /\ TableTotal(data') + InitialVotes(data, b)
                          = TableTotal(data) + Handed(data, b)]_vars

\* A first round has handed on all the votes of the eliminated party and
\* the total is what it was at the start.
C1_Witness ==
    /\ calls = 1
    /\ pc = "loop"
    /\ TableTotal(data) # NaN
    /\ TableTotal(data) = SetSum({<<p, InitialVotes(data, p)>> : p \in Parties(data)})
    /\ \E p \in Parties(data) : RedistributedVotes(data, p) > 0

\* ------------------------------------------------------------------ C2
\* C2: on a non-empty table with N distinct parties the loop makes at most
\* N calls to redistribute_bottom_points.
C2_TerminationBound ==
    Parties(data) # {} => calls <= Cardinality(Parties(data))

\* The loop has ended on the round bound, with no party at 50.
C2_Witness ==
    /\ pc = "done"
    /\ Cardinality(Parties(data)) = 3
    /\ calls = 2
    /\ flt(MaxTotal(data), Threshold * Scale)

ScenarioA(d) ==
    /\ \E s \in NoPreference : DOMAIN d = {<<"A", s>>, <<"B", "C">>, <<"C", "A">>}
    /\ \A r \in DOMAIN d : d[r].redistribution_share = Scale
    /\ InitialVotes(d, "A") = 50 * Scale
    /\ InitialVotes(d, "B") = 30 * Scale
    /\ InitialVotes(d, "C") = 20 * Scale

\* C4 as stated: on Scenario A the simulation eliminates Z in round 1, then
\* halts, and the final tally is X = 70, Y = 30.
C4_ScenarioAAsStated ==
    (ScenarioA(data) /\ pc = "done") =>
        /\ notice = <<"C">>
        /\ tally["A"].current_votes = 70 * Scale
        /\ tally["B"].current_votes = 30 * Scale

\* C4 amended: on Scenario A the simulation performs no round (the leading
\* share 50 is not below 50), raises nothing, and the final tally is the
\* input: X = 50, Y = 30, Z = 20.
C4_ScenarioA ==
    ScenarioA(data) =>
        /\ pc # "error"
        /\ calls = 0
        /\ notice = <<>>
        /\ pc = "done" =>
              /\ tally["A"].current_votes = 50 * Scale
              /\ tally["B"].current_votes = 30 * Scale
              /\ tally["C"].current_votes = 20 * Scale

\* The simulation of Scenario A has returned.
C4_Witness == ScenarioA(data) /\ pc = "done"

\* ------------------------------------------------------------------ C5
\* C5 as stated: the leading vote share of the loop guard is current_votes +
\* redistributed_votes of the party ranked first by current_votes alone.
C5_LeadingShareAsStated ==
    \A v \in TopShareOutcomes(data) :
        \E s \in current_results(data) :
            v = fadd(s[1].current_votes, s[1].redistributed_votes)

\* C5 amended: the leading vote share of the loop guard is the largest
\* defined current_votes + redistributed_votes over all parties (NaN when
\* none is defined), whichever party ranks first by current_votes.
C5_LeadingShareIsMax ==
    TopShareOutcomes(data) =
        IF Parties(data) = {} THEN {} ELSE {MaxTotal(data)}

\* After a round, every party of the table has a defined total and the
\* leading share is above the total of each party ranked first by
\* current_votes.
C5_Witness ==
    /\ calls >= 1
    /\ \A p \in Parties(data) : PartyTotal(data, p) # NaN
    /\ \A s \in current_results(data) :
          flt(fadd(s[1].current_votes, s[1].redistributed_votes), MaxTotal(data))

\* ------------------------------------------------------------------ C6
\* C6 as stated: in one round, every row whose best_party is not a
\* next_best_party of the eliminated party keeps its redistributed_votes.
C6_UnmatchedRowsAsStated ==
    [][RoundStep =>
          \A r \in DOMAIN data :
              <<Eliminated, r[1]>> \notin DOMAIN data =>
                  data'[r].redistributed_votes = data[r].redistributed_votes]_vars

\* ------------------------------------------------------------------ C7
\* The diehard total of a party: initial_votes * redistribution_share over
\* its rows without a next-best preference (0 when it has none).
DiehardTotal(d, p) ==
    FSum({<<r, fmul(d[r].initial_votes, d[r].redistribution_share)>> :
             r \in {q \in RowsOf(d, p) : q[2] \in NoPreference}})

\* C7 as stated: in the final tally a party with current_votes = 0 gets its
\* diehard total + redistributed_votes, every other party current_votes +
\* redistributed_votes, also when the party has no no-preference row.
C7_FinalTallyAsStated ==
    pc = "done" =>
        \A p \in Parties(data) :
            tally[p].current_votes =
                IF CurrentVotes(data, p) = 0
                THEN fadd(DiehardTotal(data, p), RedistributedVotes(data, p))
                ELSE fadd(CurrentVotes(data, p), RedistributedVotes(data, p))

\* ------------------------------------------------------------------ C8
\* C8 as stated: when the leading vote share of the input table is not
\* below 50, the loop runs zero rounds and every party's final total is its
\* input votes.
C8_ZeroRoundsAsStated ==
    (/\ pc = "done"
     /\ \E p \in Parties(data) : InitialVotes(data, p) >= Threshold * Scale) =>
        /\ calls = 0
        /\ \A p \in Parties(data) :
              tally[p].current_votes = InitialVotes(data, p)

\* ------------------------------------------------------------------ C9
\* C9 as stated: when the loop stops, one party's current_votes +
\* redistributed_votes exceeds 50 or at most one party still has non-zero
\* current_votes.
C9_LoopExitAsStated ==
    pc = "done" =>
        \/ \E p \in Parties(data) : flt(Threshold * Scale, PartyTotal(data, p))
        \/ Cardinality(LiveParties(data)) <= 1

\* C9 amended: when the loop stops, the leading vote share is not below 50
\* (it is at least 50, or undefined) or at most one party still has
\* non-zero current_votes.
C9_LoopExit ==
    pc = "done" =>
        \/ ~flt(MaxTotal(data), Threshold * Scale)
        \/ Cardinality(LiveParties(data)) <= 1

\* The loop has stopped on a leading share of exactly 50 with two parties
\* still holding votes.
C9_Witness ==
    /\ pc = "done"
    /\ MaxTotal(data) = Threshold * Scale
    /\ Cardinality(LiveParties(data)) >= 2

\* ------------------------------------------------------------------ C10
\* The condition for another round as C10 states it, round_count being the
\* number of rounds so far.
RoundConditionAsStated(d, round_count) ==
    /\ flt(MaxTotal(d), Threshold * Scale)
    /\ round_count < Cardinality(LiveParties(d))

\* The same with the bound the loop applies: loop_count = round_count + 1
\* against the number of distinct parties of the table, eliminated or not.
RoundCondition(d, round_count) ==
    /\ flt(MaxTotal(d), Threshold * Scale)
    /\ round_count + 1 < Cardinality(Parties(d))

\* C10 as stated: from round_count = 0 another round is performed exactly
\* when the leading share is below 50 and round_count is below the number
\* of parties with non-zero votes.
C10_LoopGuardAsStated ==
    [][/\ calls' = calls + 1 => RoundConditionAsStated(data, calls)
       /\ (pc = "loop" /\ pc' = "done") => ~RoundConditionAsStated(data, calls)]_vars

\* C10 amended: from loop_count = 1 another round is performed exactly when
\* the leading share is below 50 and loop_count is below the number of
\* distinct parties of the table, eliminated or not; loop_count increases
\* by one per round.
C10_LoopGuard ==
    [][/\ calls' = calls + 1 =>
             (RoundCondition(data, calls) /\ loop_count = calls + 1)
       /\ (pc = "loop" /\ pc' = "done") => ~RoundCondition(data, calls)
       /\ RoundStep => loop_count' = loop_count + 1]_vars

\* A second round has run although only one party had votes left before it.
C10_Witness ==
    /\ calls = 2
    /\ Len(notice) = 2
    /\ LiveParties(data) = {}
    /\ \A p \in Parties(data) : PartyTotal(data, p) # NaN

\* ------------------------------------------------------------------ C11
\* The rows of party b whose next_best_party is no best_party of the table.
OutsideRows(d, b) == {r \in RowsOf(d, b) : r[2] \notin Parties(d)}

\* What those rows would have handed on.
Dropped(d, b) ==
    FSum({<<r, fmul(d[r].initial_votes, d[r].redistribution_share)>> :
             r \in OutsideRows(d, b)})

\* The part of b's initial votes that none of b's rows hands to anybody.
Unstated(d, b) ==
    InitialVotes(d, b)
      - FSum({<<r, fmul(d[r].initial_votes, d[r].redistribution_share)>> :
                 r \in RowsOf(d, b)})

\* C11 as stated: a round eliminating a party with rows pointing outside
\* the table completes without error and the table-wide total of
\* current_votes + redistributed_votes falls by exactly initial_votes *
\* redistribution_share of those rows.
C11_DroppedShareAsStated ==
    [][(RoundStep /\ OutsideRows(data, Eliminated) # {}) =>
          /\ exc' = "none"
          /\ TableTotal(data) # NaN
          /\ TableTotal(data') # NaN
          /\ TableTotal(data') + Dropped(data, Eliminated) = TableTotal(data)]_vars

\* C11 amended: a round eliminating a party b with rows pointing outside
\* the table completes without error; every party p with a row (b, p) gets
\* initial_votes * redistribution_share of that row and nothing of the
\* outside rows; when b has a row for every party of the table and the
\* total was defined, the total falls by what the outside rows carry plus
\* the part of b's votes no row of b hands on; otherwise the total becomes
\* undefined.
C11_DroppedShare ==
    [][(RoundStep /\ OutsideRows(data, Eliminated) # {}) =>
          LET b == Eliminated
              complete == \A p \in Parties(data) : <<b, p>> \in DOMAIN data
          IN /\ exc' = "none"
             /\ DOMAIN data' = DOMAIN data
             /\ \A p \in Parties(data) :
                   <<b, p>> \in DOMAIN data =>
                       RedistributedVotes(data', p) =
                          fadd(RedistributedVotes(data, p),
                               fmul(InitialVotes(data, b),
                                    data[<<b, p>>].redistribution_share))
             /\ (complete /\ TableTotal(data) # NaN) =>
                   /\ TableTotal(data') # NaN
                   /\ TableTotal(data') + Dropped(data, b) + Unstated(data, b)
                         = TableTotal(data)
             /\ ~complete => TableTotal(data') = NaN]_vars

\* A first round has eliminated a party with a positive share pointing
\* outside the table, and the total has fallen by exactly that share.
C11_Witness ==
    /\ calls = 1
    /\ pc = "loop"
    /\ Dropped(data, notice[1]) > 0
    /\ Unstated(data, notice[1]) = 0
    /\ TableTotal(data) # NaN
    /\ TableTotal(data) + Dropped(data, notice[1])
          = SetSum({<<p, InitialVotes(data, p)>> : p \in Parties(data)})

\* ------------------------------------------------------------------ C12
\* C12: simulateRankBasedElection on a table with zero rows ends in an
\* error raised by the first evaluation of the loop condition, before any
\* call to redistribute_bottom_points, and returns no tally.
C12_EmptyTable ==
    [][DOMAIN data = {} =>
          /\ calls = 0 /\ calls' = 0
          /\ notice' = <<>>
          /\ tally' = <<>>
          /\ pc = "loop" =>
                /\ pc' = "error"
                /\ exc' = "IndexError: top_party_votes_share"]_vars

\* The simulation of the empty table has raised.
C12_Witness ==
    /\ DOMAIN data = {}
    /\ pc = "error"
    /\ exc # "none"
    /\ calls = 0

\* ------------------------------------------------------------------ C13
\* C13 as stated: on a table where some party has votes, each time the loop condition admits
\* a round, bottom_party_name finds a party with non-zero current_votes, so
\* its lookup never raises.
C13_BottomPartyFoundAsStated ==
    (\E p \in Parties(data) : InitialVotes(data, p) > 0) =>
        exc # "IndexError: bottom_party_name"

\* ------------------------------------------------------------------ C14
\* The parties with the smallest non-zero current_votes.
SmallestLive(d) ==
    {p \in LiveParties(d) :
        \A q \in LiveParties(d) : CurrentVotes(d, p) <= CurrentVotes(d, q)}

\* C14: the party a round eliminates has the smallest strictly positive
\* current_votes among the distinct parties of the table; a party with
\* current_votes = 0 is never chosen, and redistributed_votes plays no part
\* in the choice.
C14_BottomParty ==
    [][/\ bottom_party_name(data) = SmallestLive(data)
       /\ RoundStep =>
             /\ Eliminated \in SmallestLive(data)
             /\ CurrentVotes(data, Eliminated) > 0]_vars

\* The second round has eliminated the party that held the largest
\* current_votes + redistributed_votes: it has no share for itself, so its
\* total before the round was its initial_votes + redistributed_votes, and
\* the round has added initial_votes * redistribution_share to the others.
C14_Witness ==
    /\ calls = 2
    /\ Len(notice) = 2
    /\ \A p \in Parties(data) : PartyTotal(data, p) # NaN
    /\ LET b == notice[2]
       IN /\ <<b, b>> \in DOMAIN data
          /\ data[<<b, b>>].redistribution_share = 0
          /\ \A p \in Parties(data) \ {b} :
                /\ <<b, p>> \in DOMAIN data
                /\ PartyTotal(data, p)
                      - fmul(InitialVotes(data, b), data[<<b, p>>].redistribution_share)
                    < InitialVotes(data, b) + RedistributedVotes(data, b)

\* ------------------------------------------------------------------ C15
\* C15: a round eliminating b adds to redistributed_votes of every row
\* whose best_party d is a next_best_party of b exactly initial_votes(b) *
\* redistribution_share(b, d), whatever b's redistributed_votes has
\* accumulated and whether or not d has been eliminated; the sum is a float
\* sum, so it raises a defined redistributed_votes by that amount.
C15_TransferAmount ==
    [][RoundStep =>
          \A r \in DOMAIN data :
              <<Eliminated, r[1]>> \in DOMAIN data =>
                  LET transfer ==
                          fmul(InitialVotes(data, Eliminated),
                               data[<<Eliminated, r[1]>>].redistribution_share)
                  IN /\ transfer # NaN
                     /\ data'[r].redistributed_votes =
                           fadd(data[r].redistributed_votes, transfer)
                     /\ data[r].redistributed_votes # NaN =>
                           data'[r].redistributed_votes =
                              data[r].redistributed_votes + transfer]_vars

\* The second round has eliminated a party b that had received votes in the
\* first round, and has handed a share of b's initial_votes to the party d
\* eliminated in the first round.
C15_Witness ==
    /\ calls = 2
    /\ Len(notice) = 2
    /\ \A p \in Parties(data) : PartyTotal(data, p) # NaN
    /\ LET d == notice[1]
           b == notice[2]
       IN /\ {<<d, d>>, <<d, b>>, <<b, d>>, <<b, b>>} \subseteq DOMAIN data
          /\ data[<<d, b>>].redistribution_share > 0
          /\ data[<<b, d>>].redistribution_share > 0
          /\ data[<<b, b>>].redistribution_share = 0
          /\ InitialVotes(data, b) > 0
          /\ RedistributedVotes(data, b) > 0
          /\ CurrentVotes(data, d) = 0
          /\ RedistributedVotes(data, d) =
                fmul(InitialVotes(data, d), data[<<d, d>>].redistribution_share)
                  + fmul(InitialVotes(data, b), data[<<b, d>>].redistribution_share)

\* ------------------------------------------------------------------ C16
\* C16 as stated: redistributed_votes of every row starts at 0, and no
\* round leaves a row with a smaller or an undefined redistributed_votes.
C16_MonotoneAsStated ==
    [][/\ calls = 0 => \A r \in DOMAIN data : data[r].redistributed_votes = 0
       /\ RoundStep =>
             \A r \in DOMAIN data :
                 /\ data'[r].redistributed_votes # NaN
                 /\ data'[r].redistributed_votes >= data[r].redistributed_votes]_vars

\* ------------------------------------------------------------------ C17
\* C17: after any number of rounds all rows of one best_party carry the
\* same current_votes, redistributed_votes and initial_votes, so the max of
\* current_results and the mean of the final tally return that one value.
C17_RowConsistency ==
    \A p \in Parties(data) :
        /\ \A r, q \in RowsOf(data, p) :
              /\ data[r].current_votes = data[q].current_votes
              /\ data[r].redistributed_votes = data[q].redistributed_votes
              /\ data[r].initial_votes = data[q].initial_votes
        /\ [best_party          |-> p,
            current_votes       |-> CurrentVotes(data, p),
            redistributed_votes |-> RedistributedVotes(data, p)] \in Standings(data)
        /\ pc = "done" =>
              /\ tally[p].redistributed_votes = RedistributedVotes(data, p)
              /\ tally[p].initial_votes = InitialVotes(data, p)
              /\ GroupMean({<<r, data[r].current_votes>> : r \in RowsOf(data, p)})
                    = CurrentVotes(data, p)

\* The simulation has returned after two rounds and a party with several
\* rows has received votes.
C17_Witness ==
    /\ pc = "done"
    /\ calls = 2
    /\ \E p \in Parties(data) :
          /\ Cardinality(RowsOf(data, p)) >= 2
          /\ RedistributedVotes(data, p) > 0
          /\ CurrentVotes(data, p) > 0
          /\ tally[p].redistributed_votes = RedistributedVotes(data, p)

\* ------------------------------------------------------------------ C19
\* C19: the table keeps its rows, initial_votes of every row keeps the
\* value select_data gave it, and current_votes of every row is 0 or equal
\* to its initial_votes, before and after every step of the loop.
C19_VotesIntact ==
    [][/\ calls = 0 =>
             \A r \in DOMAIN data : data[r].current_votes = data[r].initial_votes
       /\ DOMAIN data' = DOMAIN data
       /\ \A r \in DOMAIN data :
             /\ data'[r].initial_votes = data[r].initial_votes
             /\ data[r].current_votes \in {0, data[r].initial_votes}
             /\ data'[r].current_votes \in {0, data'[r].initial_votes}]_vars

\* After two rounds the loop is at its head with a party that has received
\* votes and still holds all of its initial votes, and a party with votes
\* that has been eliminated.
C19_Witness ==
    /\ pc = "loop"
    /\ calls = 2
    /\ \E p \in Parties(data) :
          /\ RedistributedVotes(data, p) > 0
          /\ CurrentVotes(data, p) = InitialVotes(data, p)
          /\ CurrentVotes(data, p) > 0
    /\ \E q \in Parties(data) :
          /\ InitialVotes(data, q) > 0
          /\ CurrentVotes(data, q) = 0

\* ------------------------------------------------------------------ C20
\* The parties that had votes and have been eliminated.
EliminatedParties(d) ==
    {p \in Parties(d) : InitialVotes(d, p) # 0 /\ CurrentVotes(d, p) = 0}

\* C20: a completed round sets to 0 the current_votes of exactly one party,
\* which had non-zero current_votes before it, and leaves current_votes of
\* every other party as it was; after k completed rounds exactly k parties
\* have been eliminated, each by one round.
C20_OnePartyPerRound ==
    [][RoundStep =>
          /\ CurrentVotes(data, Eliminated) # 0
          /\ {p \in Parties(data) : CurrentVotes(data', p) # CurrentVotes(data, p)}
                = {Eliminated}
          /\ CurrentVotes(data', Eliminated) = 0
          /\ Len(notice') = loop_count' - 1
          /\ EliminatedParties(data') = {notice'[i] : i \in 1..Len(notice')}
          /\ Cardinality(EliminatedParties(data')) = loop_count' - 1]_vars

\* Two rounds have eliminated two parties and a third still has its votes.
C20_Witness ==
    /\ pc = "loop"
    /\ loop_count = 3
    /\ Cardinality(EliminatedParties(data)) = 2
    /\ Cardinality(LiveParties(data)) = 1
    /\ notice[1] # notice[2]

====
